---- MODULE Spec2Model ----
(***************************************************************************)
(* The LXD environ of provider/lxd/environ.go: Bootstrap, Destroy and      *)
(* DestroyController of one environment against one hypervisor.            *)
(*                                                                         *)
(* The hypervisor is remote state: its trust store, its instances and the  *)
(* open ingress rules.  Every remote call is one atomic step of the        *)
(* calling thread and either succeeds or fails; the Go code between two    *)
(* remote calls is local and is part of the step of the call before it.    *)
(* Each thread logs the remote calls of its current operation in           *)
(* th[t].calls, with the outcome of each.                                  *)
(***************************************************************************)
EXTENDS Integers, Sequences, FiniteSets, TLC

\* Bounds of the model.
MaxInst == 2        \* instance slots juju-0 .. juju-(MaxInst-1) on the hypervisor
MaxRules == 1       \* ingress rules that may be open at construction

\* tags.JujuModel / tags.JujuController values; "" is what a metadata map
\* lookup yields for a missing key.
EnvUUID == "abc-123"
ModelTags == {"abc-123", "xyz-999", ""}
Controllers == {"ctrl-1", "ctrl-2"}
CtrlTags == Controllers \cup {""}

\* The client certificate of the cloud spec: none configured, one whose
\* Fingerprint() fails, or one with a fingerprint.
Certs == {"none", "bad", "good"}
Fingerprint(c) == IF c = "good" THEN "fp:env" ELSE "error"
ForeignFp == "fp:other"

\* The errors of a remote call: one errors.IsNotFound holds of, and any other.
Failures == {"err", "notfound"}

InstIds == 0 .. (MaxInst - 1)
Rules == 1 .. MaxRules
Absent == [model |-> "-", ctrl |-> "-"]
Instance == [model : ModelTags, ctrl : CtrlTags]

Threads == {1, 2}
Serial == {1}

\* The configurations handed to newEnviron and SetConfig: the environment's
\* own, another valid one (other name and UUID), one newValidConfig rejects
\* and one whose UUID instance.NewNamespace rejects.
Configs == {"cfgA", "cfgB", "invalid", "badUUID"}
cfgName(c) == IF c = "cfgA" THEN "controller" ELSE "renamed"
cfgUUID(c) == IF c = "cfgA" THEN EnvUUID ELSE "xyz-999"

\* newValidConfig(cfg), lines 60 and 130.
newValidConfig(c) == IF c = "invalid" THEN "err" ELSE "ok"

\* instance.NewNamespace(cfg.UUID()), line 65.
NewNamespace(c) == IF c = "badUUID" THEN "err" ELSE "ok"

\* defaultProfileConfig, lines 94-97.
defaultProfileConfig ==
    [autostart |-> "true", nesting |-> "true"]

\* env.profileName(), lines 112-114.
profileName(c) == <<"juju-", cfgName(c)>>

VARIABLES
    local,        \* env.local
    uuid,         \* env.uuid
    clientCert,   \* the client certificate of env.cloud
    trustStore,   \* hypervisor: fingerprints of the trusted certificates
    instances,    \* hypervisor: InstIds -> Instance or Absent
    openRules,    \* open ingress rules of the environment
    th,           \* per calling thread: the operation in progress
    built,        \* newEnviron has returned an environ to the caller
    name,         \* env.name
    namespace,    \* env.namespace
    ecfg,         \* env.ecfg, the configuration snapshot
    lock,         \* env.lock: the thread holding it, 0 when free
    profiles,     \* hypervisor: the profiles, as [name, config] records
    installed,    \* history: the snapshots env.ecfg has held
    createCalled  \* history: CreateProfile has been called

more == <<built, name, namespace, ecfg, lock, profiles, installed, createCalled>>

vars == <<local, uuid, clientCert, trustStore, instances, openRules, th, more>>

Idle == [op |-> "idle", pc |-> "idle", arg |-> "", rules |-> {},
         names |-> <<>>, result |-> "none", calls |-> <<>>, cfg |-> "none"]

\* The environ newEnviron builds from configuration c, lines 75-83.
Constructed(c) ==
    /\ built = TRUE
    /\ name = cfgName(c)
    /\ uuid = cfgUUID(c)
    /\ namespace = <<"juju", cfgUUID(c)>>
    /\ ecfg = c
    /\ lock = 0
    /\ installed = {c}

Init ==
    /\ local \in BOOLEAN
    /\ clientCert \in Certs
    /\ trustStore = {ForeignFp}
    /\ instances = [i \in InstIds |-> Absent]
    /\ openRules \in SUBSET Rules
    /\ th = [t \in Threads |-> Idle]
    /\ Constructed("cfgA")
    /\ profiles = {[name |-> profileName("cfgA"), config |-> defaultProfileConfig]}
    /\ createCalled = FALSE

----------------------------------------------------------------------------
\* Helpers on a thread's record.

Called(s, c, o) == [s EXCEPT !.calls = Append(@, [call |-> c, out |-> o])]

Goto(s, p) ==
    IF p = "fail" THEN [s EXCEPT !.pc = "done", !.result = "err"]
    ELSE IF p = "return" THEN [s EXCEPT !.pc = "done", !.result = "ok"]
    ELSE [s EXCEPT !.pc = p]

Set(t, s) == th' = [th EXCEPT ![t] = s]

Present(i) == instances[i] # Absent

\* env.raw.remote.Cert: the raw provider is built from the same cloud spec,
\* so its client certificate is the cloud spec's.
remoteCert == clientCert

\* env.prefixedInstances("juju-"): the hypervisor's instances, in the
\* hypervisor's order (by name); every modelled instance is named juju-<id>.
RECURSIVE ListFrom(_)
ListFrom(i) ==
    IF i >= MaxInst THEN <<>>
    ELSE IF Present(i)
         THEN <<[id |-> i, model |-> instances[i].model, ctrl |-> instances[i].ctrl]>>
              \o ListFrom(i + 1)
         ELSE ListFrom(i + 1)

prefixedInstances == ListFrom(0)

----------------------------------------------------------------------------
\* The decisions of the Go code, one operator per branch point.

\* A Bootstrap that runs the trust step whatever env.local says.
bootstrapTrustAnyHost(isLocal, cert) ==
    IF cert = "none" THEN "fail"
    ELSE IF Fingerprint(cert) = "error" THEN "fail"
    ELSE "certByFingerprint"

\* Bootstrap, lines 161-174: the local part of the trust step.
bootstrapTrust(isLocal, cert) ==
    IF ~isLocal THEN "bootstrapEnv"
    ELSE IF cert = "none" THEN "fail"
    ELSE IF Fingerprint(cert) = "error" THEN "fail"
    ELSE "certByFingerprint"

\* A Bootstrap that does not register the certificate the lookup did not find.
afterCertByFingerprintNoAdd(out) ==
    IF out = "notfound" THEN "bootstrapEnv"
    ELSE IF out # "found" THEN "fail"
    ELSE "bootstrapEnv"

\* Bootstrap, lines 175-184: what follows the fingerprint lookup.
afterCertByFingerprint(out) ==
    IF out = "notfound" THEN "addCert"
    ELSE IF out # "found" THEN "fail"
    ELSE "bootstrapEnv"

\* A Bootstrap that goes on when AddCert failed.
afterAddCertIgnoreError(out) == "bootstrapEnv"

\* Bootstrap, lines 177-181: any error of AddCert is returned.
afterAddCert(out) == IF out # "ok" THEN "fail" ELSE "bootstrapEnv"

\* Bootstrap, line 186: the result of the generic bootstrap is returned as it is.
afterBootstrapEnv(out) == IF out = "ok" THEN "return" ELSE "fail"

\* A Destroy that never closes the rules it enumerated.
afterIngressRulesNoClose(out, rules) ==
    IF out # "ok" THEN "err" ELSE "destroyEnv"

\* A Destroy that calls ClosePorts even with no rule to close.
afterIngressRulesAlwaysClose(out, rules) ==
    IF out # "ok" THEN "err" ELSE "closePorts"

\* Destroy, lines 197-205.
afterIngressRules(out, rules) ==
    IF out # "ok" THEN "err"
    ELSE IF Cardinality(rules) > 0 THEN "closePorts"
    ELSE "destroyEnv"

\* Destroy, lines 202-204.
afterClosePorts(out) == IF out # "ok" THEN "err" ELSE "destroyEnv"

\* Destroy, lines 206-209.
afterDestroyEnv(out) == IF out # "ok" THEN "err" ELSE "ok"

\* A DestroyController that sweeps even when its Destroy failed.
afterDestroyBestEffort(op, res) ==
    IF op = "DestroyController" THEN "prefixedInstances"
    ELSE IF res # "ok" THEN "fail"
    ELSE "return"

\* What follows env.Destroy(): the caller gets its result (operation Destroy),
\* DestroyController goes on only when it is nil (lines 214-217).
afterDestroy(op, res) ==
    IF res # "ok" THEN "fail"
    ELSE IF op = "DestroyController" THEN "prefixedInstances"
    ELSE "return"

\* A loop body that collects the names in reverse.
sweepLoopBodyPrepend(names, inst, envUUID, controllerUUID) ==
    IF inst.model = envUUID THEN names
    ELSE IF inst.ctrl # controllerUUID THEN names
    ELSE <<inst.id>> \o names

\* A loop body without the controller check.
sweepLoopBodyAnyController(names, inst, envUUID, controllerUUID) ==
    IF inst.model = envUUID THEN names
    ELSE Append(names, inst.id)

\* A loop body without the own-model exclusion.
sweepLoopBodyOwnModelToo(names, inst, envUUID, controllerUUID) ==
    IF inst.ctrl # controllerUUID THEN names
    ELSE Append(names, inst.id)

\* A loop body that never collects an instance without a controller tag.
sweepLoopBodySkipUntagged(names, inst, envUUID, controllerUUID) ==
    IF inst.model = envUUID THEN names
    ELSE IF inst.ctrl = "" \/ inst.ctrl # controllerUUID THEN names
    ELSE Append(names, inst.id)

\* destroyHostedModelResources, lines 243-250: the body of the loop.
sweepLoopBody(names, inst, envUUID, controllerUUID) ==
    IF inst.model = envUUID THEN names
    ELSE IF inst.ctrl # controllerUUID THEN names
    ELSE Append(names, inst.id)

\* destroyHostedModelResources, lines 241-251: the loop over the listing.
RECURSIVE sweepLoop(_, _, _, _)
sweepLoop(names, insts, envUUID, controllerUUID) ==
    IF insts = <<>> THEN names
    ELSE sweepLoop(sweepLoopBody(names, Head(insts), envUUID, controllerUUID),
                   Tail(insts), envUUID, controllerUUID)

hostedModelNames(insts, envUUID, controllerUUID) ==
    sweepLoop(<<>>, insts, envUUID, controllerUUID)

\* A DestroyController that leaves the certificate in place.
afterSweepKeepCert(isLocal) == "return"

\* DestroyController, lines 220-228: the certificate is removed only for a
\* local LXD.
afterSweep(isLocal) == IF isLocal THEN "removeCertificate" ELSE "return"

\* A removeCertificate that returns before the removal.
removeCertificateEntrySkip(cert) == "return"

\* removeCertificate, lines 261-267.
removeCertificateEntry(cert) ==
    IF cert = "none" THEN "return"
    ELSE IF Fingerprint(cert) = "error" THEN "fail"
    ELSE "removeCertByFingerprint"

\* A removeCertificate that reports not-found as an error.
afterRemoveCertStrict(out) == IF out # "ok" THEN "fail" ELSE "return"

\* removeCertificate, lines 268-272: not-found is no error.
afterRemoveCert(out) ==
    IF out # "ok" /\ out # "notfound" THEN "fail" ELSE "return"

\* destroyHostedModelResources, lines 252-257, then DestroyController 220-229.
afterHostedModelResources ==
    IF afterSweep(local) = "removeCertificate"
    THEN removeCertificateEntry(remoteCert)
    ELSE "return"

sweepNext(names) ==
    IF Len(names) > 0 THEN "removeInstances" ELSE afterHostedModelResources

\* A sweep that takes a not-found of RemoveInstances for "already removed".
afterRemoveInstancesTolerant(out) ==
    IF out # "ok" /\ out # "notfound" THEN "fail"
    ELSE afterHostedModelResources

\* destroyHostedModelResources, lines 253-257.
afterRemoveInstances(out) ==
    IF out # "ok" THEN "fail" ELSE afterHostedModelResources

----------------------------------------------------------------------------
\* The operations.  A caller thread starts one when it is idle.

\* Bootstrap is called: lines 160-174 run up to the first remote call.
BootstrapCall(t) ==
    /\ built
    /\ th[t].op = "idle"
    /\ Set(t, Goto([Idle EXCEPT !.op = "Bootstrap"],
                   bootstrapTrust(local, clientCert)))
    /\ UNCHANGED <<more, local, uuid, clientCert, trustStore, instances, openRules>>

\* env.raw.CertByFingerprint(fingerprint), line 175.
CertByFingerprint(t) ==
    /\ th[t].pc = "certByFingerprint"
    /\ \E out \in {IF Fingerprint(clientCert) \in trustStore
                   THEN "found" ELSE "notfound", "err"} :
         Set(t, Goto(Called(th[t], "CertByFingerprint", out),
                     afterCertByFingerprint(out)))
    /\ UNCHANGED <<more, local, uuid, clientCert, trustStore, instances, openRules>>

\* env.raw.AddCert(*clientCert), line 177.
AddCert(t) ==
    /\ th[t].pc = "addCert"
    /\ \E out \in {IF Fingerprint(clientCert) \in trustStore
                   THEN "exists" ELSE "ok"} \cup Failures :
         /\ trustStore' = IF out = "ok"
                          THEN trustStore \cup {Fingerprint(clientCert)}
                          ELSE trustStore
         /\ Set(t, Goto(Called(th[t], "AddCert", out), afterAddCert(out)))
    /\ UNCHANGED <<more, local, uuid, clientCert, instances, openRules>>

\* env.base.BootstrapEnv(ctx, params), line 186: the generic bootstrap
\* provisions the controller instance of this environment, or fails.
BootstrapEnv(t) ==
    /\ th[t].pc = "bootstrapEnv"
    /\ \/ /\ \E i \in InstIds : ~Present(i)
          /\ \E c \in Controllers :
               LET i == CHOOSE j \in InstIds :
                          ~Present(j) /\ \A k \in InstIds : ~Present(k) => j <= k
               IN instances' = [instances EXCEPT
                                  ![i] = [model |-> uuid, ctrl |-> c]]
          /\ Set(t, Goto(Called(th[t], "BootstrapEnv", "ok"),
                         afterBootstrapEnv("ok")))
       \/ /\ instances' = instances
          /\ \E out \in Failures :
               Set(t, Goto(Called(th[t], "BootstrapEnv", out),
                           afterBootstrapEnv(out)))
    /\ UNCHANGED <<more, local, uuid, clientCert, trustStore, openRules>>

\* Destroy is called, line 196.
DestroyCall(t) ==
    /\ built
    /\ th[t].op = "idle"
    /\ Set(t, [Idle EXCEPT !.op = "Destroy", !.pc = "ingressRules"])
    /\ UNCHANGED <<more, local, uuid, clientCert, trustStore, instances, openRules>>

\* DestroyController(controllerUUID) is called, line 213: it starts with
\* env.Destroy().
DestroyControllerCall(t) ==
    /\ built
    /\ th[t].op = "idle"
    /\ \E c \in CtrlTags :
         Set(t, [Idle EXCEPT !.op = "DestroyController",
                             !.pc = "ingressRules", !.arg = c])
    /\ UNCHANGED <<more, local, uuid, clientCert, trustStore, instances, openRules>>

\* Leaving env.Destroy() with result res.
DestroyExit(s, res) == Goto(s, afterDestroy(s.op, res))

DestroyStep(s, p) ==
    IF p \in {"ok", "err"} THEN DestroyExit(s, p) ELSE Goto(s, p)

\* env.IngressRules(), line 197.
IngressRules(t) ==
    /\ th[t].pc = "ingressRules"
    /\ \E out \in {"ok"} \cup Failures :
         LET rules == IF out = "ok" THEN openRules ELSE {}
             s == [Called(th[t], "IngressRules", out) EXCEPT !.rules = rules]
         IN Set(t, DestroyStep(s, afterIngressRules(out, rules)))
    /\ UNCHANGED <<more, local, uuid, clientCert, trustStore, instances, openRules>>

\* env.ClosePorts(rules), line 202: closes the rules it is given.
ClosePorts(t) ==
    /\ th[t].pc = "closePorts"
    /\ \E out \in {"ok"} \cup Failures :
         /\ openRules' = IF out = "ok" THEN openRules \ th[t].rules
                         ELSE openRules
         /\ Set(t, DestroyStep(Called(th[t], "ClosePorts", out),
                               afterClosePorts(out)))
    /\ UNCHANGED <<more, local, uuid, clientCert, trustStore, instances>>

\* env.base.DestroyEnv(), line 206: the generic destroy removes this
\* environment's own instances, or fails.
DestroyEnv(t) ==
    /\ th[t].pc = "destroyEnv"
    /\ \E out \in {"ok"} \cup Failures :
         /\ instances' = IF out = "ok"
                         THEN [i \in InstIds |->
                                 IF instances[i].model = uuid THEN Absent
                                 ELSE instances[i]]
                         ELSE instances
         /\ Set(t, DestroyStep(Called(th[t], "DestroyEnv", out),
                               afterDestroyEnv(out)))
    /\ UNCHANGED <<more, local, uuid, clientCert, trustStore, openRules>>

\* env.prefixedInstances(prefix) and the loop over its result, lines 236-252.
PrefixedInstances(t) ==
    /\ th[t].pc = "prefixedInstances"
    /\ \/ LET names == hostedModelNames(prefixedInstances, uuid, th[t].arg)
              s == [Called(th[t], "prefixedInstances", "ok")
                      EXCEPT !.names = names]
          IN Set(t, Goto(s, sweepNext(names)))
       \/ \E out \in Failures :
            Set(t, Goto(Called(th[t], "prefixedInstances", out), "fail"))
    /\ UNCHANGED <<more, local, uuid, clientCert, trustStore, instances, openRules>>

\* env.raw.RemoveInstances(prefix, names...), line 253: one call for all names.
RemoveInstances(t) ==
    /\ th[t].pc = "removeInstances"
    /\ \E out \in {"ok"} \cup Failures :
         /\ instances' = IF out = "ok"
                         THEN [i \in InstIds |->
                                 IF \E k \in 1 .. Len(th[t].names) :
                                        th[t].names[k] = i
                                 THEN Absent ELSE instances[i]]
                         ELSE instances
         /\ Set(t, Goto(Called(th[t], "RemoveInstances", out),
                        afterRemoveInstances(out)))
    /\ UNCHANGED <<more, local, uuid, clientCert, trustStore, openRules>>

\* env.raw.RemoveCertByFingerprint(fingerprint), line 268.
RemoveCertByFingerprint(t) ==
    /\ th[t].pc = "removeCertByFingerprint"
    /\ \E out \in {IF Fingerprint(remoteCert) \in trustStore
                   THEN "ok" ELSE "notfound", "err"} :
         /\ trustStore' = IF out = "ok"
                          THEN trustStore \ {Fingerprint(remoteCert)}
                          ELSE trustStore
         /\ Set(t, Goto(Called(th[t], "RemoveCertByFingerprint", out),
                        afterRemoveCert(out)))
    /\ UNCHANGED <<more, local, uuid, clientCert, instances, openRules>>

\* The operation returns to its caller.
Return(t) ==
    /\ th[t].pc = "done"
    /\ Set(t, Idle)
    /\ UNCHANGED <<more, local, uuid, clientCert, trustStore, instances, openRules>>

\* Another client of the same hypervisor launches an instance named juju-<i>,
\* tagged as it likes.
OtherClientLaunch ==
    /\ \E i \in InstIds, m \in ModelTags, c \in CtrlTags :
         /\ ~Present(i)
         /\ instances' = [instances EXCEPT ![i] = [model |-> m, ctrl |-> c]]
    /\ UNCHANGED <<more, local, uuid, clientCert, trustStore, openRules, th>>

ThreadStep(t) ==
    \/ BootstrapCall(t)
    \/ CertByFingerprint(t)
    \/ AddCert(t)
    \/ BootstrapEnv(t)
    \/ DestroyCall(t)
    \/ DestroyControllerCall(t)
    \/ IngressRules(t)
    \/ ClosePorts(t)
    \/ DestroyEnv(t)
    \/ PrefixedInstances(t)
    \/ RemoveInstances(t)
    \/ RemoveCertByFingerprint(t)
    \/ Return(t)

\* The caller serializes the operations on one environment.
Next == (\E t \in Serial : ThreadStep(t)) \/ OtherClientLaunch

Spec == Init /\ [][Next]_vars

----------------------------------------------------------------------------
\* Construction: newEnviron and initProfile.

\* newEnviron, lines 60-68: validation and the namespace.
newEnvironEntry(c) ==
    IF newValidConfig(c) # "ok" THEN "fail"
    ELSE IF NewNamespace(c) # "ok" THEN "fail"
    ELSE "newRawProvider"

\* newEnviron, lines 70-73.
afterNewRawProvider(out) == IF out # "ok" THEN "fail" ELSE "hasProfile"

\* An initProfile that creates the profile whatever HasProfile answered.
afterHasProfileAlwaysCreate(out) ==
    IF out \in Failures THEN "fail" ELSE "createProfile"

\* initProfile, lines 100-109.
afterHasProfile(out) ==
    IF out \in Failures THEN "fail"
    ELSE IF out = "true" THEN "return"
    ELSE "createProfile"

\* A newEnviron that returns the environ although CreateProfile failed.
afterCreateProfileIgnoreError(out) == "return"

\* initProfile line 109 and newEnviron lines 87-91.
afterCreateProfile(out) == IF out # "ok" THEN "fail" ELSE "return"

\* The configurations newEnviron is called with: the environment's own, or
\* one that does not pass validation, or one without a usable UUID.
ConstructConfigs == {"cfgA", "invalid", "badUUID"}

HasProfileOf(c) == \E p \in profiles : p.name = profileName(c)

\* newEnviron returns: the caller gets the environ only when it returns no
\* error (lines 75-91).
Deliver(s) ==
    IF s.pc = "done" /\ s.result = "ok"
    THEN /\ built' = TRUE
         /\ name' = cfgName(s.cfg)
         /\ uuid' = cfgUUID(s.cfg)
         /\ namespace' = <<"juju", cfgUUID(s.cfg)>>
         /\ ecfg' = s.cfg
         /\ lock' = 0
         /\ installed' = {s.cfg}
    ELSE UNCHANGED <<built, name, uuid, namespace, ecfg, lock, installed>>

\* newEnviron is called, lines 53-68.
NewEnvironCall(t) ==
    /\ \A u \in Threads : th[u].op = "idle"
    /\ \E c \in ConstructConfigs :
         Set(t, Goto([Idle EXCEPT !.op = "newEnviron", !.cfg = c],
                     newEnvironEntry(c)))
    /\ UNCHANGED <<more, local, uuid, clientCert, trustStore, instances,
                   openRules>>

\* newRawProvider(spec, local), line 70: connects to the hypervisor.
NewRawProvider(t) ==
    /\ th[t].pc = "newRawProvider"
    /\ \E out \in {"ok"} \cup Failures :
         Set(t, Goto(Called(th[t], "newRawProvider", out),
                     afterNewRawProvider(out)))
    /\ UNCHANGED <<more, local, uuid, clientCert, trustStore, instances,
                   openRules>>

\* env.raw.HasProfile(env.profileName()), line 100: an absent profile is
\* the answer false, not an error.
HasProfile(t) ==
    /\ th[t].pc = "hasProfile"
    /\ \E out \in {IF HasProfileOf(th[t].cfg) THEN "true" ELSE "false", "err"} :
         LET s == Goto(Called(th[t], "HasProfile", out), afterHasProfile(out))
         IN Set(t, s) /\ Deliver(s)
    /\ UNCHANGED <<profiles, createCalled, local, clientCert, trustStore,
                   instances, openRules>>

\* env.raw.CreateProfile(env.profileName(), defaultProfileConfig), line 109.
CreateProfile(t) ==
    /\ th[t].pc = "createProfile"
    /\ \E out \in {IF HasProfileOf(th[t].cfg) THEN "exists" ELSE "ok"}
                    \cup Failures :
         LET s == Goto(Called(th[t], "CreateProfile", out),
                       afterCreateProfile(out))
         IN /\ Set(t, s)
            /\ Deliver(s)
            /\ profiles' = IF out = "ok"
                           THEN profiles \cup
                                  {[name |-> profileName(th[t].cfg),
                                    config |-> defaultProfileConfig]}
                           ELSE profiles
    /\ createCalled' = TRUE
    /\ UNCHANGED <<local, clientCert, trustStore, instances, openRules>>

ConstructStep(t) ==
    \/ NewEnvironCall(t)
    \/ NewRawProvider(t)
    \/ HasProfile(t)
    \/ CreateProfile(t)

\* Before construction: no environ yet; the hypervisor may hold the profile
\* from an earlier run.  The cloud spec carries a usable client certificate
\* and the environment's ingress rules are open.
InitLife ==
    /\ local \in BOOLEAN
    /\ clientCert = "good"
    /\ trustStore = {ForeignFp}
    /\ instances = [i \in InstIds |-> Absent]
    /\ openRules = Rules
    /\ th = [t \in Threads |-> Idle]
    /\ built = FALSE
    /\ name = ""
    /\ uuid = "none"
    /\ namespace = <<>>
    /\ ecfg = "none"
    /\ lock = 0
    /\ installed = {}
    /\ profiles \in {{}, {[name |-> profileName("cfgA"),
                           config |-> defaultProfileConfig]}}
    /\ createCalled = FALSE

\* Construction, then the serialized operations.
NextLife ==
    \/ \E t \in Serial : ConstructStep(t) \/ ThreadStep(t)
    \/ OtherClientLaunch

SpecLife == InitLife /\ [][NextLife]_vars

----------------------------------------------------------------------------
\* Configuration: Config and SetConfig, under env.lock.

\* Name(), lines 117-119.
Name == name

\* The configurations handed to SetConfig.
SetConfigs == {"cfgB", "invalid"}

\* A mutex that lets everybody in.
canLockAlways(holder) == TRUE

\* sync.Mutex.Lock, lines 128 and 140: blocks while the mutex is held.
canLock(holder) == holder = 0

\* A SetConfig that returns the validation error without unlocking.
afterNewValidConfigNoUnlock(res) == IF res # "ok" THEN "fail" ELSE "assign"

\* SetConfig, lines 130-133; the deferred Unlock of line 129 runs on return.
afterNewValidConfig(res) == IF res # "ok" THEN "unlockErr" ELSE "assign"

\* A SetConfig that also renames the environ after the new configuration.
setConfigAssignAll(env, c) ==
    [ecfg |-> c, name |-> cfgName(c), uuid |-> cfgUUID(c)]

\* SetConfig, line 134: env.ecfg = ecfg, and nothing else.
setConfigAssign(env, c) == [ecfg |-> c, name |-> env.name, uuid |-> env.uuid]

\* What a read of env.ecfg yields, line 141: the pointer, unless another
\* thread is writing it at the same time, when the read is a data race.
readEcfg(t) ==
    IF \E u \in Threads \ {t} : th[u].pc = "assign"
    THEN {ecfg, "torn"}
    ELSE {ecfg}

\* Config is called, line 139.
ConfigCall(t) ==
    /\ built
    /\ th[t].op = "idle"
    /\ Set(t, [Idle EXCEPT !.op = "Config", !.pc = "lock"])
    /\ UNCHANGED <<more, local, uuid, clientCert, trustStore, instances,
                   openRules>>

\* SetConfig is called, line 127.
SetConfigCall(t) ==
    /\ built
    /\ th[t].op = "idle"
    /\ \E c \in SetConfigs :
         Set(t, [Idle EXCEPT !.op = "SetConfig", !.pc = "lock", !.cfg = c])
    /\ UNCHANGED <<more, local, uuid, clientCert, trustStore, instances,
                   openRules>>

\* env.lock.Lock(), lines 128 and 140.
Lock(t) ==
    /\ th[t].pc = "lock"
    /\ canLock(lock)
    /\ lock' = t
    /\ Set(t, Goto(th[t], IF th[t].op = "Config" THEN "read" ELSE "validate"))
    /\ UNCHANGED <<built, name, namespace, ecfg, profiles, installed,
                   createCalled, local, uuid, clientCert, trustStore,
                   instances, openRules>>

\* cfg := env.ecfg.Config, line 141.
ReadEcfg(t) ==
    /\ th[t].pc = "read"
    /\ \E c \in readEcfg(t) :
         Set(t, Goto([th[t] EXCEPT !.cfg = c], "unlock"))
    /\ UNCHANGED <<more, local, uuid, clientCert, trustStore, instances,
                   openRules>>

\* newValidConfig(cfg), lines 130-133.
Validate(t) ==
    /\ th[t].pc = "validate"
    /\ Set(t, Goto(th[t], afterNewValidConfig(newValidConfig(th[t].cfg))))
    /\ UNCHANGED <<more, local, uuid, clientCert, trustStore, instances,
                   openRules>>

\* env.ecfg = ecfg, line 134.
Assign(t) ==
    /\ th[t].pc = "assign"
    /\ LET env == setConfigAssign([name |-> name, uuid |-> uuid], th[t].cfg)
       IN /\ ecfg' = env.ecfg
          /\ name' = env.name
          /\ uuid' = env.uuid
    /\ installed' = installed \cup {th[t].cfg}
    /\ Set(t, Goto(th[t], "unlock"))
    /\ UNCHANGED <<built, namespace, lock, profiles, createCalled, local,
                   clientCert, trustStore, instances, openRules>>

\* env.lock.Unlock(), lines 129 (deferred) and 142, and the return.
Unlock(t) ==
    /\ th[t].pc \in {"unlock", "unlockErr"}
    /\ lock' = 0
    /\ Set(t, Goto(th[t], IF th[t].pc = "unlockErr" THEN "fail" ELSE "return"))
    /\ UNCHANGED <<built, name, namespace, ecfg, profiles, installed,
                   createCalled, local, uuid, clientCert, trustStore,
                   instances, openRules>>

ConfigStep(t) ==
    \/ ConfigCall(t)
    \/ SetConfigCall(t)
    \/ Lock(t)
    \/ ReadEcfg(t)
    \/ Validate(t)
    \/ Assign(t)
    \/ Unlock(t)

\* A bootstrapped controller environment: local, its certificate usable, its
\* ingress rules open, one instance of its own and one of a hosted model.
InitCfg ==
    /\ local = TRUE
    /\ clientCert = "good"
    /\ trustStore = {ForeignFp}
    /\ instances = [i \in InstIds |->
                      IF i = 0 THEN [model |-> EnvUUID, ctrl |-> "ctrl-1"]
                      ELSE IF i = 1 THEN [model |-> "xyz-999", ctrl |-> "ctrl-1"]
                      ELSE Absent]
    /\ openRules = Rules
    /\ th = [t \in Threads |-> Idle]
    /\ Constructed("cfgA")
    /\ profiles = {[name |-> profileName("cfgA"), config |-> defaultProfileConfig]}
    /\ createCalled = FALSE

\* Both threads read and replace the configuration while thread 1 also runs
\* the lifecycle operations.
NextCfg ==
    \/ \E t \in Threads : ConfigStep(t)
    \/ \E t \in Serial : ThreadStep(t)
    \/ Return(2)

SpecCfg == InitCfg /\ [][NextCfg]_vars

\* Two threads run the lifecycle operations at the same time; the caller
\* does not serialize them.
InitConc ==
    /\ local = TRUE
    /\ clientCert = "good"
    /\ trustStore = {ForeignFp}
    /\ instances = [i \in InstIds |->
                      IF i = 0 THEN [model |-> "xyz-999", ctrl |-> "ctrl-1"]
                      ELSE Absent]
    /\ openRules = Rules
    /\ th = [t \in Threads |-> Idle]
    /\ Constructed("cfgA")
    /\ profiles = {[name |-> profileName("cfgA"), config |-> defaultProfileConfig]}
    /\ createCalled = FALSE

NextConc == \E t \in Threads : ThreadStep(t)

SpecConc == InitConc /\ [][NextConc]_vars

----------------------------------------------------------------------------
\* Vocabulary of the properties.

HasCall(s, c, o) ==
    \E k \in 1 .. Len(s.calls) : s.calls[k] = [call |-> c, out |-> o]

Calls(s, c) == {k \in 1 .. Len(s.calls) : s.calls[k].call = c}

LastCall(s) == IF s.calls = <<>> THEN [call |-> "", out |-> ""]
               ELSE s.calls[Len(s.calls)]

NameSet(n) == {n[k] : k \in 1 .. Len(n)}

\* Thread t has just made remote call c, with outcome o.
Makes(t, c, o) ==
    th'[t].calls = Append(th[t].calls, [call |-> c, out |-> o])

\* Instance slot i is emptied by this step.
Removed(i) == Present(i) /\ instances'[i] = Absent

\* The listing of the scenario of the specification.
ScenarioListing ==
    << [id |-> 0, model |-> "abc-123", ctrl |-> "ctrl-1"],
       [id |-> 1, model |-> "xyz-999", ctrl |-> "ctrl-1"],
       [id |-> 2, model |-> "xyz-999", ctrl |-> "ctrl-2"] >>

----------------------------------------------------------------------------
\* C1: the hosted-model sweep of DestroyController collects exactly the listed
\* instances whose model tag differs from the environment's UUID and whose
\* controller tag equals controllerUUID, in the order of the listing; it
\* hands them to RemoveInstances in one call, and makes no such call when
\* there are none.  In the scenario of the specification the batch is
\* [juju-1].
C1_BatchWellFormed ==
    /\ hostedModelNames(ScenarioListing, "abc-123", "ctrl-1") = <<1>>
    /\ \A t \in Threads :
         /\ Cardinality(Calls(th[t], "RemoveInstances")) <= 1
         /\ th[t].pc = "removeInstances" => th[t].names # <<>>
         /\ Calls(th[t], "RemoveInstances") # {} => th[t].names # <<>>
         /\ ( /\ HasCall(th[t], "prefixedInstances", "ok")
              /\ th[t].pc # "removeInstances"
              /\ th[t].names # <<>> )
            => Calls(th[t], "RemoveInstances") # {}

C1_BatchIsTheFilter ==
    \A t \in Threads :
        Makes(t, "prefixedInstances", "ok") =>
            /\ NameSet(th'[t].names) =
                 {i \in InstIds : /\ Present(i)
                                  /\ instances[i].model # uuid
                                  /\ instances[i].ctrl = th[t].arg}
            /\ \A k, l \in 1 .. Len(th'[t].names) :
                 k < l => th'[t].names[k] < th'[t].names[l]

C1_BatchIsRemoved ==
    \A t \in Threads :
        Makes(t, "RemoveInstances", "ok") =>
            {i \in InstIds : Removed(i)} = NameSet(th[t].names)

C1_SweepRemovesExactly ==
    /\ []C1_BatchWellFormed
    /\ [][C1_BatchIsTheFilter /\ C1_BatchIsRemoved]_vars

\* The scenario cut to the slots of the model: juju-0 of this environment is
\* skipped, juju-1 of a hosted model is removed, both of controller ctrl-1.
C1_Witness ==
    \E t \in Threads :
        /\ th[t].op = "DestroyController"
        /\ th[t].arg = "ctrl-1"
        /\ LastCall(th[t]) = [call |-> "RemoveInstances", out |-> "ok"]
        /\ th[t].names = <<1>>
        /\ instances[0] = [model |-> uuid, ctrl |-> "ctrl-1"]
        /\ ~Present(1)

\* C2, as stated: DestroyController(controllerID) never removes an instance
\* whose controller tag differs from controllerID.
C2_Original ==
    [][\A t \in Threads, i \in InstIds :
          (th[t].op = "DestroyController" /\ Removed(i))
              => instances[i].ctrl = th[t].arg]_vars

\* C2, amended: an instance DestroyController(controllerID) removes with a
\* controller tag other than controllerID is one of the environment's own,
\* removed by the Destroy of self; the batch of the sweep holds only
\* instances tagged with controllerID.
C2_BatchOfController ==
    \A t \in Threads :
        th[t].pc = "removeInstances" =>
            \A i \in NameSet(th[t].names) :
                Present(i) /\ instances[i].ctrl = th[t].arg

C2_RemovalOfController ==
    \A t \in Threads, i \in InstIds :
        (th[t].op = "DestroyController" /\ Removed(i)) =>
            \/ instances[i].ctrl = th[t].arg
            \/ instances[i].model = uuid /\ th[t].pc = "destroyEnv"

C2_SweepSparesOtherControllers ==
    []C2_BatchOfController /\ [][C2_RemovalOfController]_vars

\* The sweep has removed its batch and an instance of a hosted model of
\* another controller is still there.
C2_Witness ==
    \E t \in Threads :
        /\ th[t].op = "DestroyController"
        /\ LastCall(th[t]) = [call |-> "RemoveInstances", out |-> "ok"]
        /\ \E i \in InstIds :
             /\ Present(i)
             /\ instances[i].model # uuid
             /\ instances[i].ctrl # th[t].arg

\* C3, as stated: DestroyController never removes an instance whose model
\* tag is the environment's own UUID.
C3_Original ==
    [][\A t \in Threads, i \in InstIds :
          (th[t].op = "DestroyController" /\ Removed(i))
              => instances[i].model # uuid]_vars

\* C3, amended: DestroyController removes an instance whose model tag is the
\* environment's own UUID only in its Destroy of self (the generic destroy);
\* the batch of the sweep never holds one, even if its controller tag
\* matches.
C3_BatchSkipsOwn ==
    \A t \in Threads :
        th[t].pc = "removeInstances" =>
            \A i \in NameSet(th[t].names) :
                Present(i) /\ instances[i].model # uuid

C3_OwnRemovedByDestroyOnly ==
    \A t \in Threads, i \in InstIds :
        (th[t].op = "DestroyController" /\ Removed(i)
            /\ instances[i].model = uuid)
          => th[t].pc = "destroyEnv"

C3_SweepSparesOwnModel ==
    []C3_BatchSkipsOwn /\ [][C3_OwnRemovedByDestroyOnly]_vars

\* The sweep has removed its batch and an instance of this environment, of
\* the controller being destroyed, is still there.
C3_Witness ==
    \E t \in Threads :
        /\ th[t].op = "DestroyController"
        /\ LastCall(th[t]) = [call |-> "RemoveInstances", out |-> "ok"]
        /\ \E i \in InstIds :
             /\ Present(i)
             /\ instances[i].model = uuid
             /\ instances[i].ctrl = th[t].arg

----------------------------------------------------------------------------
EnvFp == Fingerprint(clientCert)

\* Bootstrap has got past its trust step.
PastTrust(s) ==
    /\ s.op = "Bootstrap"
    /\ s.pc = "bootstrapEnv" \/ Calls(s, "BootstrapEnv") # {}

\* C4: on a local hypervisor, a Bootstrap that gets past the trust step leaves
\* the certificate of the environment's client fingerprint in the trust store
\* (the store holds a fingerprint once).  AddCert is called once when the
\* lookup reported not-found and not at all when it found the certificate.
C4_TrustOnce ==
    local =>
      \A t \in Threads :
        /\ th[t].op = "Bootstrap" =>
             /\ Cardinality(Calls(th[t], "CertByFingerprint")) <= 1
             /\ Cardinality(Calls(th[t], "AddCert")) <= 1
             /\ Calls(th[t], "AddCert") # {}
                  => HasCall(th[t], "CertByFingerprint", "notfound")
        /\ PastTrust(th[t]) =>
             /\ EnvFp = "fp:env"
             /\ EnvFp \in trustStore
             /\ \/ /\ HasCall(th[t], "CertByFingerprint", "notfound")
                   /\ HasCall(th[t], "AddCert", "ok")
                \/ /\ HasCall(th[t], "CertByFingerprint", "found")
                   /\ Calls(th[t], "AddCert") = {}

\* The lookup reported not-found, the certificate was added and the generic
\* bootstrap is about to run.
C4_Witness ==
    /\ local
    /\ \E t \in Threads :
         /\ th[t].op = "Bootstrap"
         /\ th[t].pc = "bootstrapEnv"
         /\ th[t].calls = << [call |-> "CertByFingerprint", out |-> "notfound"],
                             [call |-> "AddCert", out |-> "ok"] >>
         /\ EnvFp \in trustStore

CertCalls == {"CertByFingerprint", "AddCert", "RemoveCertByFingerprint"}

\* C5: for a remote (non-local) hypervisor no operation ever looks up,
\* registers or removes a certificate, the trust store stays as it was, and
\* the first remote call of Bootstrap is the generic bootstrap.
C5_RemoteNeverTouchesCerts ==
    ~local =>
      /\ trustStore = {ForeignFp}
      /\ \A t \in Threads :
           /\ \A k \in 1 .. Len(th[t].calls) :
                th[t].calls[k].call \notin CertCalls
           /\ th[t].op = "Bootstrap" =>
                /\ th[t].pc \in {"bootstrapEnv", "done"}
                /\ th[t].pc = "done" =>
                     /\ Len(th[t].calls) = 1
                     /\ th[t].calls[1].call = "BootstrapEnv"

\* A remote environment with a client certificate has bootstrapped.
C5_Witness ==
    /\ ~local
    /\ clientCert = "good"
    /\ \E t \in Threads :
         /\ th[t].op = "Bootstrap"
         /\ th[t].result = "ok"
         /\ th[t].calls = << [call |-> "BootstrapEnv", out |-> "ok"] >>

\* The trust step of Bootstrap has failed.
TrustFailed(s) ==
    \/ clientCert = "none"
    \/ Fingerprint(clientCert) = "error"
    \/ HasCall(s, "CertByFingerprint", "err")
    \/ HasCall(s, "AddCert", "err")
    \/ HasCall(s, "AddCert", "notfound")
    \/ HasCall(s, "AddCert", "exists")

\* C6: in Bootstrap on a local hypervisor the generic bootstrap is invoked
\* only after the trust step has completed (certificate found, or added), and
\* a trust failure makes Bootstrap return an error without invoking it; no
\* step of Bootstrap before the generic bootstrap changes the instances.
C6_TrustFirst ==
    local =>
      \A t \in Threads : th[t].op = "Bootstrap" =>
        /\ \A k \in Calls(th[t], "BootstrapEnv") :
             /\ k = Len(th[t].calls)
             /\ k > 1
             /\ th[t].calls[k - 1] \in
                  { [call |-> "CertByFingerprint", out |-> "found"],
                    [call |-> "AddCert", out |-> "ok"] }
        /\ TrustFailed(th[t]) =>
             /\ Calls(th[t], "BootstrapEnv") = {}
             /\ th[t].pc = "done"
             /\ th[t].result = "err"

C6_NoInstanceBeforeBootstrapEnv ==
    \A t \in Threads :
        ( /\ th[t].op = "Bootstrap" \/ th'[t].op = "Bootstrap"
          /\ th'[t] # th[t]
          /\ th[t].pc # "bootstrapEnv" )
        => instances' = instances

C6_TrustBeforeBootstrap ==
    []C6_TrustFirst /\ [][C6_NoInstanceBeforeBootstrapEnv]_vars

\* AddCert has failed and Bootstrap has returned the error.
C6_Witness ==
    /\ local
    /\ \E t \in Threads :
         /\ th[t].op = "Bootstrap"
         /\ th[t].pc = "done"
         /\ th[t].result = "err"
         /\ th[t].calls = << [call |-> "CertByFingerprint", out |-> "notfound"],
                             [call |-> "AddCert", out |-> "err"] >>

InDestroy(s) == s.op \in {"Destroy", "DestroyController"}

\* C7: Destroy closes all open ingress rules before the generic destroy runs
\* and before it returns success; it does not call ClosePorts, and does not
\* fail at that step, when no rule is open; when enumerating or closing the
\* rules fails, the generic destroy is never invoked and the error is
\* returned.
C7_PortsClosedFirst ==
    \A t \in Threads : InDestroy(th[t]) =>
      /\ Cardinality(Calls(th[t], "IngressRules")) <= 1
      /\ Cardinality(Calls(th[t], "ClosePorts")) <= 1
      /\ (HasCall(th[t], "IngressRules", "ok") /\ th[t].rules = {}) =>
           /\ Calls(th[t], "ClosePorts") = {}
           /\ Len(th[t].calls) = 1 => th[t].pc = "destroyEnv"
      /\ Calls(th[t], "DestroyEnv") # {} =>
           /\ th[t].calls[1] = [call |-> "IngressRules", out |-> "ok"]
           /\ th[t].rules # {} =>
                th[t].calls[2] = [call |-> "ClosePorts", out |-> "ok"]
           /\ openRules = {}
      /\ (\E o \in Failures : HasCall(th[t], "IngressRules", o)
                                 \/ HasCall(th[t], "ClosePorts", o)) =>
           /\ Calls(th[t], "DestroyEnv") = {}
           /\ th[t].pc = "done"
           /\ th[t].result = "err"
      /\ (th[t].op = "Destroy" /\ th[t].result = "ok") =>
           /\ HasCall(th[t], "DestroyEnv", "ok")
           /\ openRules = {}

\* Destroy found open rules, closed them, ran the generic destroy and
\* returned success.
C7_Witness ==
    \E t \in Threads :
        /\ th[t].op = "Destroy"
        /\ th[t].result = "ok"
        /\ th[t].rules # {}
        /\ th[t].calls = << [call |-> "IngressRules", out |-> "ok"],
                            [call |-> "ClosePorts", out |-> "ok"],
                            [call |-> "DestroyEnv", out |-> "ok"] >>

\* The place of a remote call in DestroyController.
Rank(c) ==
    CASE c = "IngressRules" -> 1
      [] c = "ClosePorts" -> 2
      [] c = "DestroyEnv" -> 3
      [] c = "prefixedInstances" -> 4
      [] c = "RemoveInstances" -> 5
      [] c = "RemoveCertByFingerprint" -> 6
      [] OTHER -> 0

\* C8: DestroyController makes its remote calls in the order Destroy of self
\* (rules, ports, generic destroy), listing, batch removal, certificate
\* removal (local only); a failed call is the last one and its error is
\* returned, so the sweep needs a successful Destroy and the certificate
\* removal needs a successful Destroy, listing and batch removal.
C8_OrderedAndHalting ==
    \A t \in Threads : th[t].op = "DestroyController" =>
      /\ \A k, l \in 1 .. Len(th[t].calls) :
           k < l => /\ Rank(th[t].calls[k].call) > 0
                    /\ Rank(th[t].calls[k].call) < Rank(th[t].calls[l].call)
      /\ \A k \in 1 .. Len(th[t].calls) :
           ( \/ th[t].calls[k].out = "err"
             \/ /\ th[t].calls[k].out = "notfound"
                /\ th[t].calls[k].call # "RemoveCertByFingerprint" ) =>
             /\ k = Len(th[t].calls)
             /\ th[t].pc = "done"
             /\ th[t].result = "err"
      /\ Calls(th[t], "prefixedInstances") # {} =>
           HasCall(th[t], "DestroyEnv", "ok")
      /\ Calls(th[t], "RemoveInstances") # {} =>
           HasCall(th[t], "prefixedInstances", "ok")
      /\ Calls(th[t], "RemoveCertByFingerprint") # {} =>
           /\ local
           /\ HasCall(th[t], "DestroyEnv", "ok")
           /\ HasCall(th[t], "prefixedInstances", "ok")
           /\ th[t].names # <<>> => HasCall(th[t], "RemoveInstances", "ok")
      /\ th[t].result = "ok" =>
           /\ HasCall(th[t], "DestroyEnv", "ok")
           /\ HasCall(th[t], "prefixedInstances", "ok")
           /\ th[t].names # <<>> => HasCall(th[t], "RemoveInstances", "ok")

\* The batch removal failed on a local hypervisor: DestroyController has
\* returned the error and the certificate is still trusted.
C8_Witness ==
    /\ local
    /\ EnvFp \in trustStore
    /\ \E t \in Threads :
         /\ th[t].op = "DestroyController"
         /\ th[t].pc = "done"
         /\ th[t].result = "err"
         /\ LastCall(th[t]) = [call |-> "RemoveInstances", out |-> "err"]

\* C9: on a local hypervisor, when DestroyController returns success the
\* certificate Bootstrap registered for the environment is no longer in the
\* trust store; no step of an ordinary Destroy changes the trust store.
C9_GoneAfterDestroyController ==
    local =>
      \A t \in Threads :
        (th[t].op = "DestroyController" /\ th[t].result = "ok")
          => EnvFp \notin trustStore

C9_DestroyKeepsCert ==
    \A t \in Threads :
        (th[t].op = "Destroy" \/ th'[t].op = "Destroy")
          => trustStore' = trustStore

C9_CertRemovedOnDecommission ==
    []C9_GoneAfterDestroyController /\ [][C9_DestroyKeepsCert]_vars

\* DestroyController has removed a certificate that was in the trust store
\* (only Bootstrap puts it there) and returned success.
C9_Witness ==
    /\ local
    /\ \E t \in Threads :
         /\ th[t].op = "DestroyController"
         /\ th[t].result = "ok"
         /\ LastCall(th[t]) = [call |-> "RemoveCertByFingerprint", out |-> "ok"]
         /\ EnvFp \notin trustStore

\* C10: when RemoveCertByFingerprint reports not-found, removeCertificate
\* returns no error, and DestroyController returns success; any other failure
\* of the removal is returned as an error.
C10_NotFoundIsSuccess ==
    \A t \in Threads :
      /\ HasCall(th[t], "RemoveCertByFingerprint", "notfound") =>
           th[t].pc = "done" /\ th[t].result = "ok"
      /\ HasCall(th[t], "RemoveCertByFingerprint", "err") =>
           th[t].pc = "done" /\ th[t].result = "err"

\* The certificate was already absent and DestroyController returned success.
C10_Witness ==
    \E t \in Threads :
        /\ th[t].op = "DestroyController"
        /\ th[t].result = "ok"
        /\ LastCall(th[t]) =
             [call |-> "RemoveCertByFingerprint", out |-> "notfound"]
        /\ EnvFp \notin trustStore

----------------------------------------------------------------------------
\* Thread t takes a step.
Steps(t) == th'[t] # th[t]

\* Thread t makes remote call c in this step.
MakesCall(t, c) ==
    /\ Len(th'[t].calls) = Len(th[t].calls) + 1
    /\ LastCall(th'[t]).call = c

TheProfile == [name |-> profileName("cfgA"), config |-> defaultProfileConfig]

\* C12, as stated: over any sequence of constructions of the same named
\* environment CreateProfile is called at most once.
C12_Original ==
    [][\A t \in Threads : MakesCall(t, "CreateProfile") => ~createCalled]_vars

\* C12, amended: a construction that finds the profile (HasProfile answers
\* true) returns the environ without calling CreateProfile; CreateProfile is
\* called only right after HasProfile answered false, at most once per
\* construction, with the default settings, and only while the profile is
\* absent, so at most one call succeeds over any sequence of constructions
\* (a failed one is repeated by the next construction); a profile that is
\* present is never changed nor duplicated.
C12_ProfileChecked ==
    /\ profiles \subseteq {TheProfile}
    /\ \A t \in Threads : th[t].op = "newEnviron" =>
         /\ Cardinality(Calls(th[t], "CreateProfile")) <= 1
         /\ HasCall(th[t], "HasProfile", "true") =>
              /\ Calls(th[t], "CreateProfile") = {}
              /\ th[t].pc = "done"
              /\ th[t].result = "ok"
         /\ \A k \in Calls(th[t], "CreateProfile") :
              /\ k > 1
              /\ th[t].calls[k - 1] = [call |-> "HasProfile", out |-> "false"]

C12_CreateOnlyWhenAbsent ==
    /\ \A t \in Threads :
         MakesCall(t, "CreateProfile") => profiles = {}
    /\ profiles # {} => profiles' = profiles

C12_ConstructionIdempotent ==
    []C12_ProfileChecked /\ [][C12_CreateOnlyWhenAbsent]_vars

\* A construction found the profile an earlier construction created, and
\* returned the environ without creating it again.
C12_Witness ==
    /\ createCalled
    /\ built
    /\ \E t \in Threads :
         /\ th[t].op = "newEnviron"
         /\ th[t].result = "ok"
         /\ th[t].calls = << [call |-> "newRawProvider", out |-> "ok"],
                             [call |-> "HasProfile", out |-> "true"] >>

\* A step of newEnviron has failed.
ConstructionFailed(s) ==
    \/ newValidConfig(s.cfg) # "ok"
    \/ NewNamespace(s.cfg) # "ok"
    \/ \E o \in Failures : HasCall(s, "newRawProvider", o)
    \/ HasCall(s, "HasProfile", "err")
    \/ \E o \in Failures \cup {"exists"} : HasCall(s, "CreateProfile", o)

\* C13: when validation, the namespace, the connection, the profile check or
\* the profile creation fails, newEnviron returns an error and the caller
\* gets no environ from it; an environ the caller has got has its profile on
\* the hypervisor, and no operation runs, so no instance is created by
\* Bootstrap, before there is one.
C13_AllOrNothing ==
    /\ \A t \in Threads :
         /\ (th[t].op = "newEnviron" /\ ConstructionFailed(th[t])) =>
              /\ th[t].pc = "done"
              /\ th[t].result = "err"
         /\ th[t].op \in {"Bootstrap", "Destroy", "DestroyController"} => built
    /\ built => /\ HasProfileOf(ecfg)
                /\ profileName(ecfg) = <<"juju-", name>>
    /\ ~built => /\ name = ""
                 /\ ecfg = "none"
                 /\ trustStore = {ForeignFp}

C13_EnvironOnlyOnSuccess ==
    /\ <<built, name, uuid, namespace, ecfg>> # <<built', name', uuid', namespace', ecfg'>>
         => \E t \in Threads :
              /\ th[t].op = "newEnviron"
              /\ th'[t].pc = "done"
              /\ th'[t].result = "ok"
              /\ ~ConstructionFailed(th'[t])
    /\ \A t \in Threads :
         MakesCall(t, "BootstrapEnv") => built /\ HasProfileOf(ecfg)

C13_ConstructionAllOrNothing ==
    []C13_AllOrNothing /\ [][C13_EnvironOnlyOnSuccess]_vars

\* CreateProfile failed during the first construction: newEnviron returned
\* the error and there is no environ.
C13_Witness ==
    /\ ~built
    /\ \E t \in Threads :
         /\ th[t].op = "newEnviron"
         /\ th[t].result = "err"
         /\ th[t].calls = << [call |-> "newRawProvider", out |-> "ok"],
                             [call |-> "HasProfile", out |-> "false"],
                             [call |-> "CreateProfile", out |-> "err"] >>

\* The answer "not there" of a remote call: a not-found error, or false from
\* HasProfile.
NotThere(e) == e.out = "notfound" \/ (e.call = "HasProfile" /\ e.out = "false")

\* The operation of thread record s has returned an error at its call k.
FailedAt(s, k) == k = Len(s.calls) /\ s.pc = "done" /\ s.result = "err"

Cleaned ==
    /\ openRules = {}
    /\ \A i \in InstIds : instances[i].model # uuid

\* Thread t's Destroy, which has closed no port, returns in this step.
DestroyReturns(t) ==
    /\ th[t].op = "Destroy"
    /\ th[t].pc # "done"
    /\ th'[t].pc = "done"
    /\ Calls(th'[t], "ClosePorts") = {}

\* C16, as stated: a Destroy of an already cleaned environment returns
\* success.
C16_Original ==
    [][\A t \in Threads :
          (Cleaned /\ DestroyReturns(t)) => th'[t].result = "ok"]_vars

\* C16, amended: every Destroy, whatever came before, starts with the
\* enumeration of the rules; on an already cleaned environment it does not
\* call ClosePorts, leaves the hypervisor as it is, and returns success
\* unless the enumeration or the generic destroy itself fails.
C16_FromTheStart ==
    \A t \in Threads : (th[t].op = "Destroy" /\ th[t].calls # <<>>) =>
        th[t].calls[1].call = "IngressRules"

C16_NoOpWhenCleaned ==
    \A t \in Threads :
        (th[t].op = "Destroy" /\ Steps(t) /\ Cleaned) =>
            /\ ~MakesCall(t, "ClosePorts")
            /\ UNCHANGED <<instances, openRules, trustStore, profiles>>
            /\ DestroyReturns(t) =>
                 \/ th'[t].result = "ok"
                      /\ LastCall(th'[t]) = [call |-> "DestroyEnv", out |-> "ok"]
                 \/ th'[t].result = "err"
                      /\ LastCall(th'[t]).call \in {"IngressRules", "DestroyEnv"}
                      /\ LastCall(th'[t]).out \in Failures

C16_DestroyRetrySafe ==
    []C16_FromTheStart /\ [][C16_NoOpWhenCleaned]_vars

\* After a bootstrap (the certificate is trusted), Destroy has run on the
\* cleaned environment: two calls, no port closed, success.
C16_Witness ==
    /\ Cleaned
    /\ EnvFp \in trustStore
    /\ \E t \in Threads :
         /\ th[t].op = "Destroy"
         /\ th[t].result = "ok"
         /\ th[t].calls = << [call |-> "IngressRules", out |-> "ok"],
                             [call |-> "DestroyEnv", out |-> "ok"] >>

\* Instance i is in the batch thread t's sweep collects in this step.
Collects(t, i) == i \in NameSet(th'[t].names)

\* C19, as stated: an instance without a controller tag is never collected
\* when controllerUUID is not empty and is collected when it is empty; an
\* instance without a model tag and with a matching controller tag is
\* always collected.
C19_Original ==
    [][\A t \in Threads, i \in InstIds :
          (Makes(t, "prefixedInstances", "ok") /\ Present(i)) =>
              /\ (instances[i].ctrl = "" /\ th[t].arg # "") => ~Collects(t, i)
              /\ (instances[i].ctrl = "" /\ th[t].arg = "") => Collects(t, i)
              /\ (instances[i].model = "" /\ instances[i].ctrl = th[t].arg)
                   => Collects(t, i)]_vars

\* C19, amended: as stated, except that an instance without a controller
\* tag is collected by DestroyController("") only if its model tag is not the
\* environment's UUID.
C19_MissingTagIsEmpty ==
    \A t \in Threads, i \in InstIds :
        (Makes(t, "prefixedInstances", "ok") /\ Present(i)) =>
            /\ (instances[i].ctrl = "" /\ th[t].arg # "") => ~Collects(t, i)
            /\ (instances[i].ctrl = "" /\ th[t].arg = "")
                 => (Collects(t, i) <=> instances[i].model # uuid)
            /\ (instances[i].model = "" /\ instances[i].ctrl = th[t].arg)
                 => Collects(t, i)

C19_MissingTags == [][C19_MissingTagIsEmpty]_vars

\* DestroyController("") has collected an instance that has neither tag.
C19_Witness ==
    \E t \in Threads :
        /\ th[t].op = "DestroyController"
        /\ th[t].arg = ""
        /\ th[t].pc = "removeInstances"
        /\ \E i \in NameSet(th[t].names) :
             instances[i] = [model |-> "", ctrl |-> ""]

\* C11, as stated: when AddCert reports already-exists, Bootstrap does not
\* fail: it goes on to the generic bootstrap.
C11_Original ==
    \A t \in Threads :
        HasCall(th[t], "AddCert", "exists") =>
            /\ ~(th[t].pc = "done" /\ th[t].result = "err"
                   /\ Calls(th[t], "BootstrapEnv") = {})
            /\ PastTrust(th[t])

\* A thread is between Lock and Unlock.
InCriticalSection(s) ==
    /\ s.op \in {"Config", "SetConfig"}
    /\ s.pc \in {"read", "validate", "assign", "unlock", "unlockErr"}

\* The configurations SetConfig accepts.
ValidSetConfigs == {c \in SetConfigs : newValidConfig(c) = "ok"}

\* C14: under any interleaving of Config and SetConfig, at most one thread
\* is between Lock and Unlock; what Config returns is a whole configuration,
\* the construction-time one or one a successful SetConfig installed; a
\* SetConfig given an invalid configuration returns an error and does not
\* change the snapshot, and only the assignment of a SetConfig whose
\* configuration is valid changes it.
C14_WholeSnapshot ==
    /\ \A t, u \in Threads :
         (InCriticalSection(th[t]) /\ InCriticalSection(th[u])) => t = u
    /\ ecfg \in installed
    /\ installed \subseteq {"cfgA"} \cup ValidSetConfigs
    /\ \A t \in Threads :
         /\ (th[t].op = "Config" /\ th[t].pc \in {"unlock", "done"}) =>
              /\ th[t].cfg \in installed
              /\ newValidConfig(th[t].cfg) = "ok"
         /\ (th[t].op = "Config" /\ th[t].pc = "done") => th[t].result = "ok"
         /\ (th[t].op = "SetConfig" /\ th[t].pc = "done") =>
              (th[t].result = "err" <=> th[t].cfg \notin ValidSetConfigs)

C14_OnlyValidReplaces ==
    /\ ecfg' # ecfg =>
         \E t \in Threads :
           /\ th[t].op = "SetConfig"
           /\ th[t].pc = "assign"
           /\ th[t].cfg \in ValidSetConfigs
           /\ ecfg' = th[t].cfg
           /\ lock = t
    /\ \A t \in Threads :
         (th[t].op = "SetConfig" /\ th[t].cfg \notin ValidSetConfigs /\ Steps(t))
           => ecfg' = ecfg /\ installed' = installed

Lifecycle == {"newEnviron", "Bootstrap", "Destroy", "DestroyController"}

\* C15: the lock is held only between the Lock and the Unlock of a Config
\* or a SetConfig, which make no remote call; it is free once they have
\* returned, after a validation error too; a thread in Bootstrap, Destroy or
\* DestroyController never holds it, so a Config waiting for the lock waits
\* for another Config or SetConfig only.
C15_LockHeldBriefly ==
    /\ lock # 0 => InCriticalSection(th[lock])
    /\ \A t \in Threads :
         /\ th[t].op \in {"Config", "SetConfig"} => th[t].calls = <<>>
         /\ th[t].op \in Lifecycle => lock # t
         /\ th[t].pc \in {"done", "idle", "lock"} => lock # t
         /\ (th[t].pc = "lock"
               /\ \A u \in Threads \ {t} : th[u].op \in Lifecycle \cup {"idle"})
              => canLock(lock)

C15_NoCallUnderLock ==
    \A t \in Threads :
        Len(th'[t].calls) > Len(th[t].calls) => lock # t /\ lock' # t

C15_LockNeverAcrossCalls ==
    []C15_LockHeldBriefly /\ [][C15_NoCallUnderLock]_vars

\* While DestroyController is between two remote calls, a SetConfig of the
\* other thread was refused and has released the lock.
C15_Witness ==
    /\ lock = 0
    /\ \E t, u \in Threads :
         /\ th[t].op = "DestroyController"
         /\ th[t].pc = "removeInstances"
         /\ th[u].op = "SetConfig"
         /\ th[u].pc = "done"
         /\ th[u].result = "err"

\* C18: DestroyController on a local environment returns success only with
\* the certificate out of the trust store at that moment, and the certificate
\* gets back into the store only by the AddCert of a Bootstrap; nothing keeps
\* a Bootstrap of another thread from making that call afterwards (no
\* lifecycle operation ever takes the lock), which is the state of the witness.
C18_RemovedAtReturn ==
    /\ \A t \in Threads :
         (th[t].op = "DestroyController" /\ th[t].pc # "done"
            /\ th'[t].pc = "done" /\ th'[t].result = "ok")
           => EnvFp \notin trustStore'
    /\ (EnvFp \notin trustStore /\ EnvFp \in trustStore') =>
         \E u \in Threads :
           /\ th[u].op = "Bootstrap"
           /\ Makes(u, "AddCert", "ok")
    /\ \A t \in Threads :
         (th[t].pc = "idle" /\ th'[t].op = "Bootstrap")
           => th'[t].pc = bootstrapTrust(local, clientCert)

C18_NoLifecycleExclusion == [](lock = 0) /\ [][C18_RemovedAtReturn]_vars

\* DestroyController has removed the certificate and returned success, and
\* the certificate is in the trust store: the AddCert of the Bootstrap of the
\* other thread came after the removal.
C18_Witness ==
    /\ local
    /\ EnvFp \in trustStore
    /\ \E t, u \in Threads :
         /\ th[t].op = "DestroyController"
         /\ th[t].result = "ok"
         /\ LastCall(th[t]) = [call |-> "RemoveCertByFingerprint", out |-> "ok"]
         /\ th[u].op = "Bootstrap"
         /\ HasCall(th[u], "AddCert", "ok")

\* C20: SetConfig, accepted or refused, makes no remote call and changes
\* nothing but the snapshot: Name(), the UUID, the locality flag, the
\* namespace and the hypervisor binding are those of the construction, and
\* the sweep still spares the instances of the construction-time UUID and no
\* others.
C20_AsConstructed ==
    /\ Name = cfgName("cfgA")
    /\ uuid = cfgUUID("cfgA")
    /\ namespace = <<"juju", cfgUUID("cfgA")>>
    /\ local
    /\ remoteCert = "good"
    /\ \A t \in Threads : th[t].op = "SetConfig" => th[t].calls = <<>>

C20_SetConfigFrame ==
    /\ \A t \in Threads :
         ((th[t].op = "SetConfig" \/ th'[t].op = "SetConfig") /\ Steps(t)) =>
            /\ UNCHANGED <<built, name, uuid, local, namespace, clientCert,
                           profiles, createCalled, trustStore, instances,
                           openRules>>
            /\ Len(th'[t].calls) = 0
    /\ \A t \in Threads :
         Makes(t, "prefixedInstances", "ok") =>
            NameSet(th'[t].names) =
                {i \in InstIds : /\ Present(i)
                                 /\ instances[i].model # cfgUUID("cfgA")
                                 /\ instances[i].ctrl = th[t].arg}

C20_SetConfigOnlySnapshot ==
    []C20_AsConstructed /\ [][C20_SetConfigFrame]_vars

\* After a SetConfig installed a configuration of another name and UUID, the
\* sweep has collected an instance tagged with that other UUID.
C20_Witness ==
    /\ ecfg = "cfgB"
    /\ Name = "controller"
    /\ \E t \in Threads :
         /\ th[t].op = "DestroyController"
         /\ th[t].pc = "removeInstances"
         /\ \E i \in NameSet(th[t].names) :
              instances[i].model = cfgUUID("cfgB")

====
